---- MODULE Spec2Model ----
(***************************************************************************)
(* GamePlayController (server/app/controllers/game-play-controller):       *)
(* the dispatch of one play action, its feedback routing and the           *)
(* invalid-word recovery.                                                  *)
(*                                                                         *)
(* Text is a sequence of tokens, so that concatenation (+), join and       *)
(* String.includes are computed and not assumed.  An optional value is a   *)
(* sequence of length at most one: <<>> is undefined, <<v>> is v.          *)
(* Every call the controller makes on a collaborator (socket service,      *)
(* game-play service, virtual-player service, Delay) is appended, in       *)
(* program order, to the log of the request that made it.                  *)
(***************************************************************************)
EXTENDS Naturals, Sequences, FiniteSets

VARIABLES
    pc,       \* per request: where the route handler's promise chain stands
    req,      \* per request: gameId, playerId and body of the POST
    cur,      \* per request: the ActionData of the innermost handlePlayAction frame
    depth,    \* per request: number of handlePlayAction frames on the stack
    exc,      \* per request: the exception handleError holds across Delay.for
    log,      \* per request: the collaborator calls made so far, in order
    res,      \* per request: the HTTP response, <<>> while none was sent
    session,  \* per game: the state of the game in ActiveGameService
    chat,     \* the last POST to the message or the error route, and what it did
    engine    \* the calls to playAction and their settlements, all requests in order

vars == <<pc, req, cur, depth, exc, log, res, session, chat, engine>>

----------------------------------------------------------------------------
(* Bounds of the model *)

\* longest endGameFeedback list the engine hands back
MaxEndGame == 2

----------------------------------------------------------------------------
(* Values *)

Reqs == {"r1"}
\* the requests the concurrent specification follows
AllReqs == {"r1", "r2"}

Games == {"g1", "g2"}

\* g1 is a game against a virtual player, g2 a game between two humans
Players(gameId) == IF gameId = "g1" THEN {"p1", "virtual-player-1"} ELSE {"p2", "p3"}

Undefined == <<>>
Some(v) == <<v>>

SYSTEM_ID == "system"
SYSTEM_ERROR_ID == "system-error"
OPPONENT_PLAYED_INVALID_WORD == <<"Votre adversaire a joue un mot invalide.">>
NOT_IN_DICTIONARY == " n'est pas dans le dictionnaire choisi."
INVALID_WORD_TIMEOUT == "INVALID_WORD_TIMEOUT"

BAD_REQUEST == 400
NO_CONTENT == 204

\* ActionType
PASS == "passer"
PLACE == "placer"

\* COMMAND_IS_INVALID(command): the fixed prefix naming the raw input
COMMAND_IS_INVALID(input) == <<"La commande **">> \o input \o <<"** est invalide :<br>">>

\* bodies of POST /games/:gameId/players/:playerId/action
ActionTypes == {"undefined", PLACE, PASS}
Payloads == {"undefined", "{...}"}
Inputs == {<<>>, <<"!placer h8h mot">>}
ActionDatas == [type : ActionTypes, payload : Payloads, input : Inputs]

NoData == [type |-> "undefined", payload |-> "undefined", input |-> <<>>]
SENDER_REQUIRED == <<"senderId is required">>
CONTENT_REQUIRED == <<"content is required">>

NoRequest == [gameId |-> "none", playerId |-> "none", data |-> NoData]
NoException == [message |-> <<>>, status |-> 0]

HttpException(message, status) == [message |-> message, status |-> status]

\* statuses the engine's failures carry
FailStatuses == {403, 404}

----------------------------------------------------------------------------
(* Collaborators outside the controller *)

\* isIdVirtualPlayer(id)
isIdVirtualPlayer(id) == id = "virtual-player-1"

\* activeGameService.getGame(gameId, playerId).getPlayer(playerId, IS_OPPONENT).id
getOpponentId(gameId, playerId) == CHOOSE o \in Players(gameId) : o # playerId

\* gamePlayService.isGameOver(gameId, playerId): a game that is no longer
\* registered answers true
isGameOver(gameId, playerId) == session[gameId] # "active"

\* gamePlayService.handleResetObjectives(gameId, playerId)
handleResetObjectives(gameId, playerId) ==
    [kind |-> "resetObjectives", round |-> Undefined]

FeedbackItems ==
    { [message |-> Undefined, isClickable |-> Undefined],
      [message |-> Some(<<"fin">>), isClickable |-> Some(TRUE)],
      [message |-> Some(<<>>), isClickable |-> Some(FALSE)] }

SeqsUpTo(S, n) == UNION { [1..k -> S] : k \in 0..n }

\* the items of an endGameFeedback list
EndGameItems == { item \in FeedbackItems : item.message # Some(<<>>) }

FeedbackMessagesSet ==
    [localPlayerFeedback : FeedbackItems,
     opponentFeedback : FeedbackItems,
     endGameFeedback : SeqsUpTo(EndGameItems, MaxEndGame)]

GameUpdateDatas(gameId) ==
    { [kind |-> "action", round |-> Undefined] }
    \cup { [kind |-> "action", round |-> Some([playerData |-> [id |-> p]])] : p \in Players(gameId) }

Succeeds(updateData, feedback) ==
    [ok |-> TRUE, updateData |-> updateData, feedback |-> feedback, exception |-> NoException]
Fails(exception) ==
    [ok |-> FALSE, updateData |-> Undefined, feedback |-> Undefined, exception |-> exception]

WordNotInDictionary(status) == HttpException(<<"mot", NOT_IN_DICTIONARY>>, status)
OtherFailure(status) == HttpException(<<"Ce n'est pas votre tour">>, status)

\* gamePlayService.playAction(gameId, playerId, data): [updateData, feedback]
\* or a thrown HttpException.  A PASS is never rejected for a word; a game that
\* is no longer registered rejects every action.
playAction(gameId, playerId, data) ==
    IF session[gameId] = "deleted"
    THEN { Fails(OtherFailure(s)) : s \in FailStatuses }
    ELSE { Succeeds(u, f) :
             u \in {Undefined} \cup { Some(x) : x \in GameUpdateDatas(gameId) },
             f \in {Undefined} \cup { Some(x) : x \in FeedbackMessagesSet } }
         \cup { Fails(OtherFailure(s)) : s \in FailStatuses }
         \cup IF data.type = PASS THEN {}
              ELSE { Fails(WordNotInDictionary(s)) : s \in FailStatuses }

----------------------------------------------------------------------------
(* Calls on collaborators, as they appear in a log *)

Message(content, senderId, gameId, isClickable) ==
    [content |-> content, senderId |-> senderId, gameId |-> gameId,
     isClickable |-> isClickable]

emitToSocket(id, ev, data) == <<"emitToSocket", id, ev, data>>
emitToRoom(id, ev, data) == <<"emitToRoom", id, ev, data>>
callPlayAction(gameId, playerId, data) == <<"playAction", gameId, playerId, data>>
settlePlayAction(gameId, playerId, outcome) == <<"playAction settled", gameId, playerId, outcome>>
callDelay(ms) == <<"Delay.for", ms>>
callIsGameOver(gameId, playerId) ==
    <<"isGameOver", gameId, playerId, session[gameId], isGameOver(gameId, playerId)>>
callHandleResetObjectives(gameId, playerId) == <<"handleResetObjectives", gameId, playerId>>
callTriggerVirtualPlayerTurn(data, gameId, playerId) ==
    <<"triggerVirtualPlayerTurn", data, gameId, playerId>>

----------------------------------------------------------------------------
(* The controller *)

\* what a stretch of handlePlayAction did before it stopped: the calls it made,
\* and where it stopped (an await, a return or a throw)
Effect(to, events, exception, data) ==
    [to |-> to, events |-> events, exception |-> exception, data |-> data]

\* JavaScript truthiness of an optional string
Truthy(message) == message # Undefined /\ message[1] # <<>>

\* message ?? ''
OrEmpty(message) == IF message = Undefined THEN <<>> ELSE message[1]

\* Array.prototype.join
RECURSIVE Join(_, _)
Join(texts, separator) ==
    IF Len(texts) = 0 THEN <<>>
    ELSE IF Len(texts) = 1 THEN texts[1]
    ELSE texts[1] \o <<separator>> \o Join(Tail(texts), separator)

\* isWordNotInDictionaryError: exception.message.includes(...)
isWordNotInDictionaryError(exception) ==
    \E i \in 1..Len(exception.message) : exception.message[i] = NOT_IN_DICTIONARY

\* gameUpdate without the isIdVirtualPlayer test
gameUpdate_TriggerForAnyRound(gameId, data) ==
    <<emitToRoom(gameId, "gameUpdate", data)>>
    \o IF data.round # Undefined
       THEN <<callTriggerVirtualPlayerTurn(data, gameId, data.round[1].playerData.id)>>
       ELSE <<>>

\* gameUpdate
gameUpdate(gameId, data) ==
    <<emitToRoom(gameId, "gameUpdate", data)>>
    \o IF data.round # Undefined /\ isIdVirtualPlayer(data.round[1].playerData.id)
       THEN <<callTriggerVirtualPlayerTurn(data, gameId, data.round[1].playerData.id)>>
       ELSE <<>>

\* handleFeedback with the opponent's message nested in the local player's test
handleFeedback_OpponentInsideLocal(gameId, playerId, feedback) ==
    (IF Truthy(feedback.localPlayerFeedback.message)
     THEN <<emitToSocket(playerId, "newMessage",
                Message(feedback.localPlayerFeedback.message[1], SYSTEM_ID, gameId,
                        feedback.localPlayerFeedback.isClickable))>>
          \o (IF Truthy(feedback.opponentFeedback.message)
              THEN <<emitToSocket(getOpponentId(gameId, playerId), "newMessage",
                         Message(feedback.opponentFeedback.message[1], SYSTEM_ID, gameId,
                                 feedback.opponentFeedback.isClickable))>>
              ELSE <<>>)
     ELSE <<>>)
    \o (IF Len(feedback.endGameFeedback) > 0
        THEN <<emitToRoom(gameId, "newMessage",
                   Message(Join([i \in 1..Len(feedback.endGameFeedback) |->
                                    OrEmpty(feedback.endGameFeedback[i].message)], "<br>"),
                           SYSTEM_ID, gameId, Undefined))>>
        ELSE <<>>)

\* handleFeedback with one broadcast for each end-of-game item
handleFeedback_EndGameEach(gameId, playerId, feedback) ==
    (IF Truthy(feedback.localPlayerFeedback.message)
     THEN <<emitToSocket(playerId, "newMessage",
                Message(feedback.localPlayerFeedback.message[1], SYSTEM_ID, gameId,
                        feedback.localPlayerFeedback.isClickable))>>
     ELSE <<>>)
    \o (IF Truthy(feedback.opponentFeedback.message)
        THEN <<emitToSocket(getOpponentId(gameId, playerId), "newMessage",
                   Message(feedback.opponentFeedback.message[1], SYSTEM_ID, gameId,
                           feedback.opponentFeedback.isClickable))>>
        ELSE <<>>)
    \o [i \in 1..Len(feedback.endGameFeedback) |->
           emitToRoom(gameId, "newMessage",
               Message(OrEmpty(feedback.endGameFeedback[i].message), SYSTEM_ID, gameId,
                       Undefined))]

\* handleFeedback
handleFeedback(gameId, playerId, feedback) ==
    (IF Truthy(feedback.localPlayerFeedback.message)
     THEN <<emitToSocket(playerId, "newMessage",
                Message(feedback.localPlayerFeedback.message[1], SYSTEM_ID, gameId,
                        feedback.localPlayerFeedback.isClickable))>>
     ELSE <<>>)
    \o (IF Truthy(feedback.opponentFeedback.message)
        THEN <<emitToSocket(getOpponentId(gameId, playerId), "newMessage",
                   Message(feedback.opponentFeedback.message[1], SYSTEM_ID, gameId,
                           feedback.opponentFeedback.isClickable))>>
        ELSE <<>>)
    \o (IF Len(feedback.endGameFeedback) > 0
        THEN <<emitToRoom(gameId, "newMessage",
                   Message(Join([i \in 1..Len(feedback.endGameFeedback) |->
                                    OrEmpty(feedback.endGameFeedback[i].message)], "<br>"),
                           SYSTEM_ID, gameId, Undefined))>>
        ELSE <<>>)

\* handleErrorNotify with the notification broadcast to the game
handleErrorNotify_ToRoom(exception, input, playerId, gameId) ==
    <<emitToRoom(gameId, "newMessage",
          Message(COMMAND_IS_INVALID(input) \o exception.message, SYSTEM_ERROR_ID,
                  gameId, Undefined))>>

\* handleError, its last statement: the notification to the acting player
handleErrorNotify(exception, input, playerId, gameId) ==
    <<emitToSocket(playerId, "newMessage",
          Message(COMMAND_IS_INVALID(input) \o exception.message, SYSTEM_ERROR_ID,
                  gameId, Undefined))>>

\* handleError, from its call to its first await or its return
handleError(exception, input, playerId, gameId) ==
    IF isWordNotInDictionaryError(exception)
    THEN Effect("Delay.for", <<callDelay(INVALID_WORD_TIMEOUT)>>, exception, NoData)
    ELSE Effect("return", handleErrorNotify(exception, input, playerId, gameId),
                NoException, NoData)

\* handleErrorAfterDelay with the opponent's notice sent to the acting player
handleErrorAfterDelay_NoticeToPlayer(exception, input, playerId, gameId) ==
    IF isGameOver(gameId, playerId)
    THEN Effect("return", <<callIsGameOver(gameId, playerId)>>, NoException, NoData)
    ELSE Effect("return",
                <<callIsGameOver(gameId, playerId),
                  callHandleResetObjectives(gameId, playerId)>>
                \o gameUpdate(gameId, handleResetObjectives(gameId, playerId))
                \o <<emitToSocket(playerId, "newMessage",
                         Message(OPPONENT_PLAYED_INVALID_WORD, SYSTEM_ID, gameId, Undefined))>>
                \o handleErrorNotify(exception, input, playerId, gameId),
                NoException, NoData)

\* handleErrorAfterDelay without the return on a game that is over
handleErrorAfterDelay_NoGameOverReturn(exception, input, playerId, gameId) ==
    Effect("return",
           <<callIsGameOver(gameId, playerId),
             callHandleResetObjectives(gameId, playerId)>>
           \o gameUpdate(gameId, handleResetObjectives(gameId, playerId))
           \o <<emitToSocket(getOpponentId(gameId, playerId), "newMessage",
                    Message(OPPONENT_PLAYED_INVALID_WORD, SYSTEM_ID, gameId, Undefined))>>
           \o handleErrorNotify(exception, input, playerId, gameId),
           NoException, NoData)

\* handleErrorAfterDelay with the notification to the player in an else branch
handleErrorAfterDelay_NoErrorNotice(exception, input, playerId, gameId) ==
    IF isGameOver(gameId, playerId)
    THEN Effect("return", <<callIsGameOver(gameId, playerId)>>, NoException, NoData)
    ELSE Effect("return",
                <<callIsGameOver(gameId, playerId),
                  callHandleResetObjectives(gameId, playerId)>>
                \o gameUpdate(gameId, handleResetObjectives(gameId, playerId))
                \o <<emitToSocket(getOpponentId(gameId, playerId), "newMessage",
                         Message(OPPONENT_PLAYED_INVALID_WORD, SYSTEM_ID, gameId, Undefined))>>,
                NoException, NoData)

\* handleErrorAfterDelay with the notification to the player sent first
handleErrorAfterDelay_ErrorNoticeFirst(exception, input, playerId, gameId) ==
    IF isGameOver(gameId, playerId)
    THEN Effect("return", <<callIsGameOver(gameId, playerId)>>, NoException, NoData)
    ELSE Effect("return",
                <<callIsGameOver(gameId, playerId)>>
                \o handleErrorNotify(exception, input, playerId, gameId)
                \o <<callHandleResetObjectives(gameId, playerId)>>
                \o gameUpdate(gameId, handleResetObjectives(gameId, playerId))
                \o <<emitToSocket(getOpponentId(gameId, playerId), "newMessage",
                         Message(OPPONENT_PLAYED_INVALID_WORD, SYSTEM_ID, gameId, Undefined))>>,
                NoException, NoData)

\* handleErrorAfterDelay with the opponent's notice signed as an error
handleErrorAfterDelay_OpponentNoticeAsError(exception, input, playerId, gameId) ==
    IF isGameOver(gameId, playerId)
    THEN Effect("return", <<callIsGameOver(gameId, playerId)>>, NoException, NoData)
    ELSE Effect("return",
                <<callIsGameOver(gameId, playerId),
                  callHandleResetObjectives(gameId, playerId)>>
                \o gameUpdate(gameId, handleResetObjectives(gameId, playerId))
                \o <<emitToSocket(getOpponentId(gameId, playerId), "newMessage",
                         Message(OPPONENT_PLAYED_INVALID_WORD, SYSTEM_ERROR_ID, gameId,
                                 Undefined))>>
                \o handleErrorNotify(exception, input, playerId, gameId),
                NoException, NoData)

\* handleErrorAfterDelay with the opponent notified before the reset is broadcast
handleErrorAfterDelay_OpponentFirst(exception, input, playerId, gameId) ==
    IF isGameOver(gameId, playerId)
    THEN Effect("return", <<callIsGameOver(gameId, playerId)>>, NoException, NoData)
    ELSE Effect("return",
                <<callIsGameOver(gameId, playerId),
                  emitToSocket(getOpponentId(gameId, playerId), "newMessage",
                      Message(OPPONENT_PLAYED_INVALID_WORD, SYSTEM_ID, gameId, Undefined)),
                  callHandleResetObjectives(gameId, playerId)>>
                \o gameUpdate(gameId, handleResetObjectives(gameId, playerId))
                \o handleErrorNotify(exception, input, playerId, gameId),
                NoException, NoData)

\* handleError, from the end of Delay.for to its return
handleErrorAfterDelay(exception, input, playerId, gameId) ==
    IF isGameOver(gameId, playerId)
    THEN Effect("return", <<callIsGameOver(gameId, playerId)>>, NoException, NoData)
    ELSE Effect("return",
                <<callIsGameOver(gameId, playerId),
                  callHandleResetObjectives(gameId, playerId)>>
                \o gameUpdate(gameId, handleResetObjectives(gameId, playerId))
                \o <<emitToSocket(getOpponentId(gameId, playerId), "newMessage",
                         Message(OPPONENT_PLAYED_INVALID_WORD, SYSTEM_ID, gameId, Undefined))>>
                \o handleErrorNotify(exception, input, playerId, gameId),
                NoException, NoData)

\* handlePlayAction without the check of the payload
handlePlayAction_NoPayloadCheck(gameId, playerId, data) ==
    IF data.type = "undefined"
    THEN Effect("throw", <<>>, HttpException(<<"type is required">>, BAD_REQUEST), data)
    ELSE Effect("playAction",
                (IF Len(data.input) > 0
                 THEN <<emitToSocket(playerId, "newMessage",
                            [content |-> data.input, senderId |-> playerId,
                             gameId |-> gameId, isClickable |-> Undefined])>>
                 ELSE <<>>)
                \o <<callPlayAction(gameId, playerId, data)>>,
                NoException, data)

\* handlePlayAction with the echo sent once playAction has been called
handlePlayAction_EchoAfterCall(gameId, playerId, data) ==
    IF data.type = "undefined"
    THEN Effect("throw", <<>>, HttpException(<<"type is required">>, BAD_REQUEST), data)
    ELSE IF data.payload = "undefined"
    THEN Effect("throw", <<>>, HttpException(<<"payload is required">>, BAD_REQUEST), data)
    ELSE Effect("playAction",
                <<callPlayAction(gameId, playerId, data)>>
                \o (IF Len(data.input) > 0
                    THEN <<emitToSocket(playerId, "newMessage",
                               [content |-> data.input, senderId |-> playerId,
                                gameId |-> gameId, isClickable |-> Undefined])>>
                    ELSE <<>>),
                NoException, data)

\* handlePlayAction, from its call to the await of playAction
handlePlayAction(gameId, playerId, data) ==
    IF data.type = "undefined"
    THEN Effect("throw", <<>>, HttpException(<<"type is required">>, BAD_REQUEST), data)
    ELSE IF data.payload = "undefined"
    THEN Effect("throw", <<>>, HttpException(<<"payload is required">>, BAD_REQUEST), data)
    ELSE Effect("playAction",
                (IF Len(data.input) > 0
                 THEN <<emitToSocket(playerId, "newMessage",
                            [content |-> data.input, senderId |-> playerId,
                             gameId |-> gameId, isClickable |-> Undefined])>>
                 ELSE <<>>)
                \o <<callPlayAction(gameId, playerId, data)>>,
                NoException, data)

\* handlePlayAction, the try block once playAction has resolved
handlePlayActionResolved(gameId, playerId, updateData, feedback) ==
    Effect("return",
           (IF updateData # Undefined THEN gameUpdate(gameId, updateData[1]) ELSE <<>>)
           \o (IF feedback # Undefined THEN handleFeedback(gameId, playerId, feedback[1])
               ELSE <<>>),
           NoException, NoData)

\* handlePlayActionCatch without the virtual player's early throw
handlePlayActionCatch_NoVirtualCheck(gameId, playerId, data, exception) ==
    handleError(exception, data.input, playerId, gameId)

\* handlePlayActionCatch with the virtual player's throw kept for other failures only
handlePlayActionCatch_VirtualWordRecovers(gameId, playerId, data, exception) ==
    IF isIdVirtualPlayer(playerId) /\ ~isWordNotInDictionaryError(exception)
    THEN Effect("throw", <<>>, HttpException(exception.message, exception.status), data)
    ELSE handleError(exception, data.input, playerId, gameId)

\* handlePlayAction, the catch block up to the await of handleError
handlePlayActionCatch(gameId, playerId, data, exception) ==
    IF isIdVirtualPlayer(playerId)
    THEN Effect("throw", <<>>, HttpException(exception.message, exception.status), data)
    ELSE handleError(exception, data.input, playerId, gameId)

\* handlePlayActionResubmit with the rejected action submitted again
handlePlayActionResubmit_SameAction(gameId, playerId, data) ==
    handlePlayAction(gameId, playerId, data)

\* handlePlayActionResubmit with the rejected action's raw input kept
handlePlayActionResubmit_KeepsInput(gameId, playerId, data) ==
    handlePlayAction(gameId, playerId, [type |-> PASS, payload |-> "{}", input |-> data.input])

\* the action handlePlayAction resubmits for the same game and player
handlePlayActionResubmit(gameId, playerId, data) ==
    handlePlayAction(gameId, playerId, [type |-> PASS, payload |-> "{}", input |-> <<>>])

\* handlePlayActionAfterError without its own game-over check
handlePlayActionAfterError_NoGameOverCheck(gameId, playerId, data, exception) ==
    IF isWordNotInDictionaryError(exception)
    THEN handlePlayActionResubmit(gameId, playerId, data)
    ELSE Effect("return", <<>>, NoException, NoData)

\* handlePlayAction, the catch block once handleError has returned
handlePlayActionAfterError(gameId, playerId, data, exception) ==
    IF isWordNotInDictionaryError(exception)
    THEN IF isGameOver(gameId, playerId)
         THEN Effect("return", <<callIsGameOver(gameId, playerId)>>, NoException, NoData)
         ELSE LET again == handlePlayActionResubmit(gameId, playerId, data)
              IN Effect(again.to, <<callIsGameOver(gameId, playerId)>> \o again.events,
                        again.exception, again.data)
    ELSE Effect("return", <<>>, NoException, NoData)

\* the body of a POST to the message or the error route: a Message whose
\* senderId and content may be missing
Bodies ==
    [senderId : {Undefined, Some("p1"), Some(SYSTEM_ERROR_ID)},
     content : {Undefined, Some(<<"bonjour">>)}]
NoBody == [senderId |-> Undefined, content |-> Undefined]
NoChat ==
    [route |-> "none", gameId |-> "none", playerId |-> "none", message |-> NoBody,
     events |-> <<>>, res |-> Undefined]

\* handleNewMessage: the message goes to the room as it was received
handleNewMessage(gameId, message) ==
    IF message.senderId = Undefined
    THEN Effect("throw", <<>>, HttpException(SENDER_REQUIRED, BAD_REQUEST), NoData)
    ELSE IF message.content = Undefined
    THEN Effect("throw", <<>>, HttpException(CONTENT_REQUIRED, BAD_REQUEST), NoData)
    ELSE Effect("return",
                <<emitToRoom(gameId, "newMessage",
                      [content |-> message.content[1], senderId |-> message.senderId[1]])>>,
                NoException, NoData)

\* handleNewError with the submitted senderId kept
handleNewError_KeepsSender(playerId, gameId, message) ==
    IF message.senderId = Undefined
    THEN Effect("throw", <<>>, HttpException(SENDER_REQUIRED, BAD_REQUEST), NoData)
    ELSE IF message.content = Undefined
    THEN Effect("throw", <<>>, HttpException(CONTENT_REQUIRED, BAD_REQUEST), NoData)
    ELSE Effect("return",
                <<emitToSocket(playerId, "newMessage",
                      Message(message.content[1], message.senderId[1], gameId, Undefined))>>,
                NoException, NoData)

\* handleNewError
handleNewError(playerId, gameId, message) ==
    IF message.senderId = Undefined
    THEN Effect("throw", <<>>, HttpException(SENDER_REQUIRED, BAD_REQUEST), NoData)
    ELSE IF message.content = Undefined
    THEN Effect("throw", <<>>, HttpException(CONTENT_REQUIRED, BAD_REQUEST), NoData)
    ELSE Effect("return",
                <<emitToSocket(playerId, "newMessage",
                      Message(message.content[1], SYSTEM_ERROR_ID, gameId, Undefined))>>,
                NoException, NoData)

\* HttpException.sendError(exception, res) and res.status(NO_CONTENT).send()
sendError(exception) == Some([status |-> exception.status, message |-> exception.message])
sendNoContent == Some([status |-> NO_CONTENT, message |-> <<>>])

----------------------------------------------------------------------------
(* The state machine *)

Init ==
    /\ pc = [r \in AllReqs |-> "idle"]
    /\ req = [r \in AllReqs |-> NoRequest]
    /\ cur = [r \in AllReqs |-> NoData]
    /\ depth = [r \in AllReqs |-> 0]
    /\ exc = [r \in AllReqs |-> NoException]
    /\ log = [r \in AllReqs |-> <<>>]
    /\ res = [r \in AllReqs |-> Undefined]
    /\ session = [g \in Games |-> "active"]
    /\ chat = NoChat
    /\ engine = <<>>

\* Yields with a wait that keeps the thread until the delay is over
Yields_DelayBlocks(p) == p = "playAction"

\* an await hands the event loop over: a handler suspended at playAction or at
\* Delay.for does not keep another handler from running
Yields(p) == p \in {"playAction", "Delay.for"}

\* request r may run: every handler runs to its next await or to its end before
\* another one is started or resumed
Turn(r) == \A q \in AllReqs \ {r} : pc[q] \in {"idle", "done"} \/ Yields(pc[q])

\* the engine's part of a request's calls, as `engine` keeps it
IsEngineEvent(event) == event[1] \in {"playAction", "playAction settled"}
EngineEvents(r, events) ==
    LET kept == SelectSeq(events, IsEngineEvent)
    IN [i \in 1..Len(kept) |-> <<r>> \o kept[i]]

\* request r goes on from where effect e stopped, having made the calls `events`:
\* at an await it is suspended; a return or a throw unwinds every
\* handlePlayAction frame and the route handler answers
Continue(r, events, e) ==
    /\ log' = [log EXCEPT ![r] = @ \o events]
    /\ engine' = engine \o EngineEvents(r, events)
    /\ pc' = [pc EXCEPT ![r] = IF e.to \in {"return", "throw"} THEN "done" ELSE e.to]
    /\ res' = [res EXCEPT ![r] = IF e.to = "return" THEN sendNoContent
                                 ELSE IF e.to = "throw" THEN sendError(e.exception)
                                 ELSE @]
    /\ cur' = [cur EXCEPT ![r] = IF e.to = "playAction" THEN e.data ELSE @]
    /\ depth' = [depth EXCEPT ![r] = IF e.to = "playAction" THEN @ + 1
                                     ELSE IF e.to \in {"return", "throw"} THEN 0
                                     ELSE @]
    /\ exc' = [exc EXCEPT ![r] = IF e.to = "Delay.for" THEN e.exception ELSE NoException]

\* POST /games/:gameId/players/:playerId/action, up to the await of playAction
PostAction(r) ==
    /\ pc[r] = "idle"
    /\ Turn(r)
    /\ \E gameId \in Games :
       \E playerId \in Players(gameId) :
       \E data \in ActionDatas :
          LET e == handlePlayAction(gameId, playerId, data)
          IN /\ req' = [req EXCEPT ![r] =
                            [gameId |-> gameId, playerId |-> playerId, data |-> data]]
             /\ log' = [log EXCEPT ![r] = e.events]
             /\ engine' = engine \o EngineEvents(r, e.events)
             /\ pc' = [pc EXCEPT ![r] = IF e.to = "throw" THEN "done" ELSE e.to]
             /\ res' = [res EXCEPT ![r] = IF e.to = "throw" THEN sendError(e.exception)
                                          ELSE Undefined]
             /\ cur' = [cur EXCEPT ![r] = data]
             /\ depth' = [depth EXCEPT ![r] = IF e.to = "throw" THEN 0 ELSE 1]
             /\ exc' = [exc EXCEPT ![r] = NoException]
    /\ UNCHANGED <<session, chat>>

\* playAction settles with `outcome` and handlePlayAction runs on to its next
\* await or its end
Settle(r, outcome) ==
    LET gameId == req[r].gameId
        playerId == req[r].playerId
        settled == <<settlePlayAction(gameId, playerId, outcome)>>
        resolved == handlePlayActionResolved(gameId, playerId, outcome.updateData,
                                             outcome.feedback)
    IN IF outcome.ok
       THEN Continue(r, settled \o resolved.events, resolved)
       ELSE LET caught == handlePlayActionCatch(gameId, playerId, cur[r],
                                                outcome.exception)
                after == handlePlayActionAfterError(gameId, playerId, cur[r],
                                                    outcome.exception)
            IN IF caught.to = "return"
               THEN Continue(r, settled \o caught.events \o after.events, after)
               ELSE Continue(r, settled \o caught.events, caught)

PlayActionSettles(r) ==
    /\ pc[r] = "playAction"
    /\ Turn(r)
    /\ \E outcome \in playAction(req[r].gameId, req[r].playerId, cur[r]) :
          Settle(r, outcome)
    /\ UNCHANGED <<req, session, chat>>

\* the outcomes without end-of-game feedback
Terse(outcome) ==
    outcome.feedback = Undefined \/ outcome.feedback[1].endGameFeedback = <<>>

\* PlayActionSettles with an outcome without end-of-game feedback
PlayActionSettlesTersely(r) ==
    /\ pc[r] = "playAction"
    /\ Turn(r)
    /\ \E outcome \in { o \in playAction(req[r].gameId, req[r].playerId, cur[r]) :
                          Terse(o) } :
          Settle(r, outcome)
    /\ UNCHANGED <<req, session, chat>>

\* Delay.for(INVALID_WORD_TIMEOUT) ends: handleError runs to its return and
\* handlePlayAction goes on in the same turn of the event loop
DelayElapses(r) ==
    /\ pc[r] = "Delay.for"
    /\ Turn(r)
    /\ LET gameId == req[r].gameId
           playerId == req[r].playerId
           resumed == handleErrorAfterDelay(exc[r], cur[r].input, playerId, gameId)
           after == handlePlayActionAfterError(gameId, playerId, cur[r], exc[r])
       IN Continue(r, resumed.events \o after.events, after)
    /\ UNCHANGED <<req, session, chat>>

\* the game ends (last tiles played, a player leaves)
GameEnds(gameId) ==
    /\ session[gameId] = "active"
    /\ session' = [session EXCEPT ![gameId] = "over"]
    /\ UNCHANGED <<pc, req, cur, depth, exc, log, res, chat, engine>>

\* activeGameService.removeGame: the game is no longer registered
RemoveGame(gameId) ==
    /\ session[gameId] # "deleted"
    /\ session' = [session EXCEPT ![gameId] = "deleted"]
    /\ UNCHANGED <<pc, req, cur, depth, exc, log, res, chat, engine>>

\* the route handler's answer to a message or error POST that ended as effect e;
\* the two handlers do not await: a POST is handled in one step, and the model
\* follows one such POST
Answer(route, gameId, playerId, message, e) ==
    [route |-> route, gameId |-> gameId, playerId |-> playerId, message |-> message,
     events |-> e.events,
     res |-> IF e.to = "throw" THEN sendError(e.exception) ELSE sendNoContent]

\* POST /games/:gameId/players/:playerId/message
PostMessage ==
    /\ chat.route = "none"
    /\ \E gameId \in Games :
       \E playerId \in Players(gameId) :
       \E message \in Bodies :
          chat' = Answer("message", gameId, playerId, message,
                         handleNewMessage(gameId, message))
    /\ UNCHANGED <<pc, req, cur, depth, exc, log, res, session, engine>>

\* POST /games/:gameId/players/:playerId/error
PostError ==
    /\ chat.route = "none"
    /\ \E gameId \in Games :
       \E playerId \in Players(gameId) :
       \E message \in Bodies :
          chat' = Answer("error", gameId, playerId, message,
                         handleNewError(playerId, gameId, message))
    /\ UNCHANGED <<pc, req, cur, depth, exc, log, res, session, engine>>

Next ==
    \/ \E r \in Reqs : PostAction(r)
    \/ \E r \in Reqs : PlayActionSettles(r)
    \/ \E r \in Reqs : DelayElapses(r)
    \/ \E gameId \in Games : GameEnds(gameId)
    \/ \E gameId \in Games : RemoveGame(gameId)

Spec == Init /\ [][Next]_vars

\* The same machine with the engine's outcomes limited to the terse ones, and
\* with the event loop's guarantee: a settled promise's continuation and an
\* elapsed timer's callback are run.
NextLive ==
    \/ \E r \in Reqs : PostAction(r)
    \/ \E r \in Reqs : PlayActionSettlesTersely(r)
    \/ \E r \in Reqs : DelayElapses(r)
    \/ \E gameId \in Games : GameEnds(gameId)
    \/ \E gameId \in Games : RemoveGame(gameId)

Fairness ==
    \A r \in Reqs : WF_vars(PlayActionSettlesTersely(r)) /\ WF_vars(DelayElapses(r))

SpecLive == Init /\ [][NextLive]_vars /\ Fairness

\* the outcomes with neither an update nor feedback
Brief(outcome) == outcome.feedback = Undefined /\ outcome.updateData = Undefined

\* PlayActionSettles with an outcome with neither an update nor feedback
PlayActionSettlesBriefly(r) ==
    /\ pc[r] = "playAction"
    /\ Turn(r)
    /\ \E outcome \in { o \in playAction(req[r].gameId, req[r].playerId, cur[r]) :
                          Brief(o) } :
          Settle(r, outcome)
    /\ UNCHANGED <<req, session, chat>>

\* Two requests to the action route in flight together
NextConc ==
    \/ \E r \in AllReqs : PostAction(r)
    \/ \E r \in AllReqs : PlayActionSettlesBriefly(r)
    \/ \E r \in AllReqs : DelayElapses(r)

SpecConc == Init /\ [][NextConc]_vars

\* The three routes of the controller together
NextRoutes ==
    \/ NextLive
    \/ PostMessage
    \/ PostError

SpecRoutes == Init /\ [][NextRoutes]_vars

----------------------------------------------------------------------------
(* Reading a request's log *)

Human(r) == pc[r] # "idle" /\ ~isIdVirtualPlayer(req[r].playerId)
Virtual(r) == pc[r] # "idle" /\ isIdVirtualPlayer(req[r].playerId)

Indices(r, kind) == { i \in 1..Len(log[r]) : log[r][i][1] = kind }
Where(r, event) == { i \in 1..Len(log[r]) : log[r][i] = event }
Min(S) == CHOOSE i \in S : \A j \in S : i <= j

IsNewMessage(e) == e[1] \in {"emitToSocket", "emitToRoom"} /\ e[3] = "newMessage"
NewMessages(r) == { i \in 1..Len(log[r]) : IsNewMessage(log[r][i]) }

\* the outcome of the action the client submitted (the first playAction to settle)
Settled(r) == Indices(r, "playAction settled") # {}
Original(r) == log[r][Min(Indices(r, "playAction settled"))][4]
RejectedForWord(r) ==
    Settled(r) /\ ~Original(r).ok /\ isWordNotInDictionaryError(Original(r).exception)
RejectedOtherwise(r) ==
    Settled(r) /\ ~Original(r).ok /\ ~isWordNotInDictionaryError(Original(r).exception)

\* the game-over check handleError makes when the delay has elapsed
Checked(r) == Indices(r, "isGameOver") # {}
PostDelayCheck(r) == log[r][Min(Indices(r, "isGameOver"))]

\* the events the claims speak of
Echo(r) ==
    emitToSocket(req[r].playerId, "newMessage",
        Message(req[r].data.input, req[r].playerId, req[r].gameId, Undefined))
ResetBroadcast(r) ==
    emitToRoom(req[r].gameId, "gameUpdate",
        [kind |-> "resetObjectives", round |-> Undefined])
OpponentNotice(r) ==
    emitToSocket(getOpponentId(req[r].gameId, req[r].playerId), "newMessage",
        Message(OPPONENT_PLAYED_INVALID_WORD, SYSTEM_ID, req[r].gameId, Undefined))
ErrorNotice(r) ==
    emitToSocket(req[r].playerId, "newMessage",
        Message(COMMAND_IS_INVALID(req[r].data.input) \o Original(r).exception.message,
                SYSTEM_ERROR_ID, req[r].gameId, Undefined))
PassCall(r) ==
    callPlayAction(req[r].gameId, req[r].playerId,
        [type |-> PASS, payload |-> "{}", input |-> <<>>])
\* the playAction calls that follow the first one: the resubmissions
Resubmissions(r) ==
    IF Indices(r, "playAction") = {} THEN {}
    ELSE Indices(r, "playAction") \ {Min(Indices(r, "playAction"))}

----------------------------------------------------------------------------
(* Claims *)

\* C1: a human player's action is rejected for a word that is not in the
\* dictionary and the game is not over at the check made after the delay: when
\* the dispatch has completed, exactly one objectives-reset update was broadcast
\* to the game, the opponent got exactly one "opponent played an invalid word"
\* message from the system sender, exactly one PASS (empty payload) was
\* resubmitted for the same game and player, and there was no second delay.
C1_RecoveryRunsOnce ==
    \A r \in Reqs :
        (pc[r] = "done" /\ Human(r) /\ RejectedForWord(r)
            /\ Checked(r) /\ ~PostDelayCheck(r)[5])
        => /\ Cardinality(Where(r, ResetBroadcast(r))) = 1
           /\ Cardinality(Indices(r, "handleResetObjectives")) = 1
           /\ Cardinality(Where(r, OpponentNotice(r))) = 1
           /\ Cardinality(Resubmissions(r)) = 1
           /\ \A i \in Resubmissions(r) : log[r][i] = PassCall(r)
           /\ Cardinality(Indices(r, "Delay.for")) = 1

C1_Witness ==
    \E r \in Reqs :
        /\ pc[r] = "done" /\ Human(r) /\ RejectedForWord(r)
        /\ Checked(r) /\ ~PostDelayCheck(r)[5]
        /\ Cardinality(Indices(r, "playAction settled")) = 2

\* C2: same rejection, but the game is over at the check made after the delay:
\* no objectives-reset update is broadcast, the opponent is not notified and no
\* PASS is resubmitted to the engine.
C2_GameOverStopsRecovery ==
    \A r \in Reqs :
        (Human(r) /\ RejectedForWord(r) /\ Checked(r) /\ PostDelayCheck(r)[5])
        => /\ Where(r, ResetBroadcast(r)) = {}
           /\ Indices(r, "handleResetObjectives") = {}
           /\ Indices(r, "emitToRoom") = {}
           /\ Where(r, OpponentNotice(r)) = {}
           /\ Resubmissions(r) = {}
           /\ pc[r] = "done"

C2_Witness ==
    \E r \in Reqs :
        /\ pc[r] = "done" /\ Human(r) /\ RejectedForWord(r)
        /\ Checked(r) /\ PostDelayCheck(r)[5] /\ PostDelayCheck(r)[4] = "over"

\* C3 as stated: a virtual player's action fails: no newMessage at all is
\* emitted during the dispatch, and the caller gets the failure's message and
\* status.
C3_AsStated ==
    \A r \in Reqs :
        (pc[r] = "done" /\ Virtual(r) /\ Settled(r) /\ ~Original(r).ok)
        => /\ NewMessages(r) = {}
           /\ res[r] = Some([status |-> Original(r).exception.status,
                             message |-> Original(r).exception.message])

\* C3: a virtual player's action fails: the only newMessage of the dispatch is
\* the echo of a non-empty raw input, sent to the acting player before
\* playAction is called (none when the raw input is empty); nothing is emitted
\* once the failure is raised, and the caller gets a failure with the same
\* message and status.
C3_VirtualFailurePropagates ==
    \A r \in Reqs :
        (pc[r] = "done" /\ Virtual(r) /\ Settled(r) /\ ~Original(r).ok)
        => /\ NewMessages(r) = Where(r, Echo(r))
           /\ Len(req[r].data.input) = 0 => NewMessages(r) = {}
           /\ \A i \in NewMessages(r) : i < Min(Indices(r, "playAction"))
           /\ log[r][Len(log[r])][1] = "playAction settled"
           /\ res[r] = Some([status |-> Original(r).exception.status,
                             message |-> Original(r).exception.message])

C3_Witness ==
    \E r \in Reqs :
        /\ pc[r] = "done" /\ Virtual(r) /\ Settled(r) /\ ~Original(r).ok
        /\ isWordNotInDictionaryError(Original(r).exception)
        /\ Where(r, Echo(r)) # {}

\* C4: an action without a type or without a payload is answered 400 at once:
\* playAction is not called and nothing is emitted, not even the echo.
C4_ValidationFailsFast ==
    \A r \in Reqs :
        (pc[r] # "idle"
            /\ (req[r].data.type = "undefined" \/ req[r].data.payload = "undefined"))
        => /\ pc[r] = "done"
           /\ res[r] # Undefined
           /\ res[r][1].status = BAD_REQUEST
           /\ log[r] = <<>>

C4_Witness ==
    \E r \in Reqs :
        /\ pc[r] = "done"
        /\ req[r].data.type # "undefined" /\ req[r].data.payload = "undefined"
        /\ Len(req[r].data.input) > 0
        /\ res[r] = Some([status |-> BAD_REQUEST, message |-> <<"payload is required">>])

\* C5: a dispatched action with a non-empty raw input: the first call of the
\* dispatch is the echo (content the raw input, sender the submitting player),
\* it is sent once, and playAction and every other emission come after it.
C5_EchoComesFirst ==
    \A r \in Reqs :
        (pc[r] # "idle" /\ req[r].data.type # "undefined"
            /\ req[r].data.payload # "undefined" /\ Len(req[r].data.input) > 0)
        => /\ Len(log[r]) >= 2
           /\ log[r][1] = Echo(r)
           /\ Where(r, Echo(r)) = {1}
           /\ \A i \in 1..Len(log[r]) :
                (log[r][i][1] \in {"playAction", "emitToRoom", "triggerVirtualPlayerTurn"}
                    \/ (log[r][i][1] = "emitToSocket" /\ log[r][i] # Echo(r)))
                => i > 1

C5_Witness ==
    \E r \in Reqs :
        /\ pc[r] = "done" /\ Len(req[r].data.input) > 0
        /\ Where(r, Echo(r)) = {1}
        /\ Indices(r, "playAction") # {}
        /\ Indices(r, "emitToRoom") # {}

\* C6: a human player's action fails for another reason than the word: the
\* acting player gets exactly one message from the system-error sender, the
\* prefix followed by the failure's message; nothing is sent to anybody else;
\* there is no delay, no objectives reset, no resubmission; the request is
\* answered 204.
C6_OtherFailureNotifiesOnly ==
    \A r \in Reqs :
        (pc[r] = "done" /\ Human(r) /\ RejectedOtherwise(r))
        => /\ Cardinality(Where(r, ErrorNotice(r))) = 1
           /\ \A i \in NewMessages(r) :
                log[r][i][4].senderId = SYSTEM_ERROR_ID => log[r][i] = ErrorNotice(r)
           /\ \A i \in Indices(r, "emitToSocket") : log[r][i][2] = req[r].playerId
           /\ Indices(r, "emitToRoom") = {}
           /\ Indices(r, "Delay.for") = {}
           /\ Indices(r, "isGameOver") = {}
           /\ Indices(r, "handleResetObjectives") = {}
           /\ Indices(r, "triggerVirtualPlayerTurn") = {}
           /\ Resubmissions(r) = {}
           /\ res[r] = sendNoContent

C6_Witness ==
    \E r \in Reqs :
        /\ pc[r] = "done" /\ Human(r) /\ RejectedOtherwise(r)
        /\ session[req[r].gameId] = "active"
        /\ Len(req[r].data.input) > 0
        /\ Where(r, ErrorNotice(r)) # {}

\* C7 as stated: every word-not-in-dictionary failure of a human player ends
\* with the system-error notification delivered to the acting player, whatever
\* the game-over check returned.
C7_AsStated ==
    \A r \in Reqs :
        (pc[r] = "done" /\ Human(r) /\ RejectedForWord(r))
        => Where(r, ErrorNotice(r)) # {}

\* C7: for a word-not-in-dictionary failure of a human player, the acting
\* player gets the system-error notification (prefix naming the raw input, then
\* the failure's message), once, together with the recovery steps, exactly when
\* the game-over check made after the delay returns false; when it returns
\* true no system-error notification is sent.
C7_NoticeUnlessGameOver ==
    \A r \in Reqs :
        (Human(r) /\ RejectedForWord(r) /\ Checked(r))
        => /\ Cardinality(Where(r, ErrorNotice(r))) = IF PostDelayCheck(r)[5] THEN 0 ELSE 1
           /\ PostDelayCheck(r)[5] =>
                \A i \in NewMessages(r) : log[r][i][4].senderId # SYSTEM_ERROR_ID
           /\ ~PostDelayCheck(r)[5] =>
                /\ Where(r, ResetBroadcast(r)) # {}
                /\ Where(r, OpponentNotice(r)) # {}

C7_Witness ==
    \E r \in Reqs :
        /\ pc[r] = "done" /\ Human(r) /\ RejectedForWord(r)
        /\ Checked(r) /\ ~PostDelayCheck(r)[5]
        /\ Where(r, ErrorNotice(r)) # {}
        /\ Where(r, Echo(r)) # {}

\* C8 as stated: in the recovery the system-error notification to the acting
\* player is sent before the delay starts.
C8_AsStated ==
    \A r \in Reqs :
        (Human(r) /\ RejectedForWord(r) /\ Indices(r, "Delay.for") # {})
        => \E n \in Where(r, ErrorNotice(r)) : n < Min(Indices(r, "Delay.for"))

\* C8: in the recovery the system-error notification to the acting player is
\* sent after the delay, after the game-over check, after the broadcast of the
\* objectives reset and after the opponent's notice, and before the PASS is
\* resubmitted; nothing is sent to the acting player before the delay starts
\* but the echo.
C8_NoticeAfterDelay ==
    \A r \in Reqs :
        (Human(r) /\ RejectedForWord(r))
        => /\ \A n \in Where(r, ErrorNotice(r)) :
                /\ \E d \in Indices(r, "Delay.for") : d < n
                /\ \E c \in Indices(r, "isGameOver") : c < n
                /\ \E b \in Where(r, ResetBroadcast(r)) : b < n
                /\ \E o \in Where(r, OpponentNotice(r)) : o < n
                /\ \A k \in Resubmissions(r) : n < k
           /\ \A d \in Indices(r, "Delay.for") :
                \A i \in NewMessages(r) : i < d => log[r][i] = Echo(r)

C8_Witness ==
    \E r \in Reqs :
        /\ Human(r) /\ RejectedForWord(r)
        /\ Where(r, ErrorNotice(r)) # {}
        /\ Resubmissions(r) # {}
        /\ pc[r] = "playAction"

C10_CompletesWithinTwoCalls ==
    /\ [](\A r \in Reqs :
            Human(r) => /\ Cardinality(Indices(r, "playAction")) <= 2
                        /\ depth[r] <= 2)
    /\ \A r \in Reqs : Human(r) ~> pc[r] = "done"

C10_Witness ==
    \E r \in Reqs :
        /\ pc[r] = "done" /\ Human(r)
        /\ Cardinality(Indices(r, "playAction")) = 2
        /\ Cardinality(Indices(r, "playAction settled")) = 2

----------------------------------------------------------------------------
(* Reading what follows a resolved playAction *)

\* the playAction calls of request r that resolved
Resolved(r) == { i \in Indices(r, "playAction settled") : log[r][i][4].ok }
After(r, i) == (i + 1)..Len(log[r])

\* the messages of a list of feedback items, absent ones as empty text, with a
\* line break between two consecutive ones
RECURSIVE LinesFrom(_, _)
LinesFrom(items, k) ==
    LET text == IF items[k].message = Undefined THEN <<>> ELSE items[k].message[1]
    IN IF k >= Len(items) THEN text ELSE text \o <<"<br>">> \o LinesFrom(items, k + 1)

\* C11: a resolved playAction with an update: the update is broadcast to the
\* game at once; when its round names a virtual player,
\* triggerVirtualPlayerTurn is called right after the broadcast, once, with the
\* same update; when it has no round or the round's player is human, the
\* trigger is not called.
C11_BroadcastThenTrigger ==
    \A r \in Reqs : \A i \in Resolved(r) :
        LET update == log[r][i][4].updateData
            triggers == { j \in After(r, i) : log[r][j][1] = "triggerVirtualPlayerTurn" }
        IN IF update = Undefined
           THEN triggers = {}
                /\ \A j \in After(r, i) : log[r][j][1] = "emitToRoom"
                                           => log[r][j][3] # "gameUpdate"
           ELSE /\ Len(log[r]) > i
                /\ log[r][i + 1] = emitToRoom(req[r].gameId, "gameUpdate", update[1])
                /\ { j \in After(r, i) : log[r][j][1] = "emitToRoom"
                                          /\ log[r][j][3] = "gameUpdate" } = {i + 1}
                /\ IF update[1].round # Undefined
                      /\ update[1].round[1].playerData.id = "virtual-player-1"
                   THEN /\ triggers = {i + 2}
                        /\ log[r][i + 2] =
                             callTriggerVirtualPlayerTurn(update[1], req[r].gameId,
                                                          "virtual-player-1")
                   ELSE triggers = {}

C11_Witness ==
    \E r \in Reqs : \E i \in Resolved(r) :
        /\ pc[r] = "done"
        /\ Indices(r, "triggerVirtualPlayerTurn") = {i + 2}
        /\ log[r][i + 1][1] = "emitToRoom"

\* C12 as stated: each of the two direct feedback messages is sent if and only
\* if its message is present.
C12_AsStated ==
    \A r \in Reqs : \A i \in Resolved(r) :
        LET feedback == log[r][i][4].feedback
        IN feedback # Undefined =>
            /\ (feedback[1].localPlayerFeedback.message # Undefined)
                 <=> (\E j \in After(r, i) : log[r][j][1] = "emitToSocket"
                                             /\ log[r][j][2] = req[r].playerId)
            /\ (feedback[1].opponentFeedback.message # Undefined)
                 <=> (\E j \in After(r, i) :
                        log[r][j][1] = "emitToSocket"
                        /\ log[r][j][2] = getOpponentId(req[r].gameId, req[r].playerId))

\* C12: the local player's message is sent, once, to playerId alone if and only
\* if it is present and not empty; the opponent's message is sent, once, to
\* the opponent of playerId alone if and only if it is present and not empty;
\* both come from the system sender and carry the item's isClickable; neither
\* depends on the other.
C12_FeedbackToItsAudience ==
    \A r \in Reqs : \A i \in Resolved(r) :
        LET feedback == log[r][i][4].feedback
            local == feedback[1].localPlayerFeedback
            opponent == feedback[1].opponentFeedback
            opponentId == getOpponentId(req[r].gameId, req[r].playerId)
            toPlayer == { j \in After(r, i) : log[r][j][1] = "emitToSocket"
                                              /\ log[r][j][2] = req[r].playerId }
            toOpponent == { j \in After(r, i) : log[r][j][1] = "emitToSocket"
                                                /\ log[r][j][2] = opponentId }
        IN feedback # Undefined =>
            /\ \A j \in After(r, i) :
                  log[r][j][1] = "emitToSocket" => j \in toPlayer \cup toOpponent
            /\ IF local.message # Undefined /\ local.message[1] # <<>>
               THEN /\ Cardinality(toPlayer) = 1
                    /\ \A j \in toPlayer :
                          log[r][j] = emitToSocket(req[r].playerId, "newMessage",
                                          Message(local.message[1], SYSTEM_ID,
                                                  req[r].gameId, local.isClickable))
               ELSE toPlayer = {}
            /\ IF opponent.message # Undefined /\ opponent.message[1] # <<>>
               THEN /\ Cardinality(toOpponent) = 1
                    /\ \A j \in toOpponent :
                          log[r][j] = emitToSocket(opponentId, "newMessage",
                                          Message(opponent.message[1], SYSTEM_ID,
                                                  req[r].gameId, opponent.isClickable))
               ELSE toOpponent = {}

C12_Witness ==
    \E r \in Reqs : \E i \in Resolved(r) :
        LET feedback == log[r][i][4].feedback
        IN /\ feedback # Undefined
           /\ feedback[1].localPlayerFeedback.message = Undefined
           /\ feedback[1].opponentFeedback.message = Some(<<"fin">>)
           /\ \E j \in After(r, i) :
                 log[r][j][2] = getOpponentId(req[r].gameId, req[r].playerId)

\* C13: a resolved playAction whose feedback has end-of-game items: exactly one
\* newMessage is broadcast to the game, from the system sender, its content the
\* items' messages in order with a line break between them, an absent message
\* as empty text; with no direct feedback message populated nothing is sent to
\* a single participant; with no end-of-game item nothing is broadcast as a
\* newMessage.
C13_EndGameBroadcastOnce ==
    \A r \in Reqs : \A i \in Resolved(r) :
        LET feedback == log[r][i][4].feedback
            rooms == { j \in After(r, i) : log[r][j][1] = "emitToRoom"
                                           /\ log[r][j][3] = "newMessage" }
            direct(item) == item.message # Undefined /\ item.message[1] # <<>>
        IN IF feedback = Undefined
           THEN rooms = {}
           ELSE /\ IF Len(feedback[1].endGameFeedback) = 0
                   THEN rooms = {}
                   ELSE /\ Cardinality(rooms) = 1
                        /\ \A j \in rooms :
                              log[r][j] = emitToRoom(req[r].gameId, "newMessage",
                                  Message(LinesFrom(feedback[1].endGameFeedback, 1),
                                          SYSTEM_ID, req[r].gameId, Undefined))
                /\ (~direct(feedback[1].localPlayerFeedback)
                        /\ ~direct(feedback[1].opponentFeedback))
                   => \A j \in After(r, i) : log[r][j][1] # "emitToSocket"

C13_Witness ==
    \E r \in Reqs : \E i \in Resolved(r) :
        /\ pc[r] = "done"
        /\ log[r][i][4].feedback # Undefined
        /\ Len(log[r][i][4].feedback[1].endGameFeedback) = 2
        /\ log[r][Len(log[r])] =
              emitToRoom(req[r].gameId, "newMessage",
                  Message(<<"fin", "<br>", "fin">>, SYSTEM_ID, req[r].gameId, Undefined))
        /\ \A j \in After(r, i) : log[r][j][1] # "emitToSocket"

\* C16: every playAction call after the first one of a dispatch is the PASS
\* with an empty payload and an empty raw input for the request's game and
\* player; it is reached (validation lets it through) straight from the
\* game-over check with nothing emitted in between; the only newMessage signed
\* by the player in the whole dispatch is the echo of the submitted raw input,
\* ahead of the first call.
C16_ResubmissionIsSilentPass ==
    \A r \in Reqs :
        LET echoes == { i \in NewMessages(r) : log[r][i][4].senderId = req[r].playerId }
        IN /\ \A k \in Resubmissions(r) :
                 /\ log[r][k] = PassCall(r)
                 /\ log[r][k - 1][1] = "isGameOver"
                 /\ cur[r].input = <<>>
           /\ echoes \subseteq {1}
           /\ \A i \in echoes : log[r][i] = Echo(r) /\ req[r].data.input # <<>>
           /\ (Resubmissions(r) # {} /\ res[r] # <<>>) => res[r][1].status # BAD_REQUEST

C16_Witness ==
    \E r \in Reqs :
        /\ pc[r] = "done" /\ Resubmissions(r) # {}
        /\ Where(r, Echo(r)) = {1}
        /\ Indices(r, "playAction settled") # {}
        /\ log[r][Len(log[r])][1] # "playAction settled"

\* C17: in a recovery that resubmits, the order is: Delay.for is called, the
\* game-over check is made once the delay has elapsed, the objectives reset is
\* broadcast, the opponent is notified, and only then the PASS is submitted;
\* while the delay runs none of the later steps has happened.
C17_RecoveryOrder ==
    \A r \in Reqs :
        /\ \A k \in Resubmissions(r) :
              \E d \in Indices(r, "Delay.for") :
              \E c \in Indices(r, "isGameOver") :
              \E b \in Where(r, ResetBroadcast(r)) :
              \E o \in Where(r, OpponentNotice(r)) :
                 d < c /\ c < b /\ b < o /\ o < k
        /\ pc[r] = "Delay.for" =>
              /\ Where(r, ResetBroadcast(r)) = {}
              /\ Where(r, OpponentNotice(r)) = {}
              /\ Resubmissions(r) = {}

C17_Witness ==
    \E r \in Reqs :
        /\ pc[r] = "playAction" /\ depth[r] = 2
        /\ log[r][Len(log[r])] = PassCall(r)
        /\ Where(r, ResetBroadcast(r)) # {} /\ Where(r, OpponentNotice(r)) # {}

\* C19: a virtual player's action is rejected for a word that is not in the
\* dictionary: the dispatch ends at once with that failure; Delay.for,
\* isGameOver and handleResetObjectives are not called, nothing is broadcast to
\* the game, the opponent is not notified and playAction is not called again.
C19_VirtualWordFailureSkipsRecovery ==
    \A r \in Reqs :
        (Virtual(r) /\ RejectedForWord(r)) =>
            /\ pc[r] = "done"
            /\ res[r] = sendError(Original(r).exception)
            /\ Indices(r, "Delay.for") = {}
            /\ Indices(r, "isGameOver") = {}
            /\ Indices(r, "handleResetObjectives") = {}
            /\ Indices(r, "emitToRoom") = {}
            /\ Where(r, OpponentNotice(r)) = {}
            /\ Resubmissions(r) = {}
            /\ log[r][Len(log[r])][1] = "playAction settled"

C19_Witness ==
    \E r \in Reqs :
        /\ Virtual(r) /\ RejectedForWord(r)
        /\ req[r].data.input = <<>>
        /\ Len(log[r]) = 2

\* C15: a POST to the error route without senderId or without content is
\* answered 400 and emits nothing; any other one is answered 204 and emits
\* exactly one newMessage, to the socket of playerId (not to the room), signed
\* by the system-error sender whatever senderId was submitted, with the
\* submitted content.
C15_ErrorRouteToPlayerOnly ==
    chat.route = "error" =>
        IF chat.message.senderId = Undefined \/ chat.message.content = Undefined
        THEN /\ chat.events = <<>>
             /\ chat.res # Undefined /\ chat.res[1].status = BAD_REQUEST
        ELSE /\ chat.res = sendNoContent
             /\ Len(chat.events) = 1
             /\ chat.events[1][1] = "emitToSocket"
             /\ chat.events[1][2] = chat.playerId
             /\ chat.events[1][3] = "newMessage"
             /\ chat.events[1][4].senderId = "system-error"
             /\ chat.events[1][4].content = chat.message.content[1]
             /\ chat.events[1][4].gameId = chat.gameId

C15_Witness ==
    /\ chat.route = "error"
    /\ chat.message.senderId = Some("p1")
    /\ chat.playerId = "p2"
    /\ Len(chat.events) = 1

\* what the controller sent as newMessage: to whom and signed by whom
SignedBy(e, senderId) == IsNewMessage(e) /\ e[4].senderId = senderId
ToSocketOf(e, id) == e[1] = "emitToSocket" /\ e[2] = id

C14_DelayBlocksNoOne ==
    \A r \in AllReqs : pc[r] = "Delay.for" =>
        \A q \in AllReqs \ {r} :
            /\ pc[q] = "idle" => ENABLED PostAction(q)
            /\ pc[q] = "playAction" => ENABLED PlayActionSettlesBriefly(q)
            /\ pc[q] = "Delay.for" => ENABLED DelayElapses(q)

\* a request for the same game was posted after the rejection that started the
\* delay, and was answered 204 while the delay still runs
C14_Witness ==
    \E r \in AllReqs : \E q \in AllReqs \ {r} :
        /\ pc[r] = "Delay.for" /\ pc[q] = "done"
        /\ req[q].gameId = req[r].gameId
        /\ res[q] = sendNoContent
        /\ \E j \in 1..Len(engine) : \E k \in 1..Len(engine) :
              /\ j < k
              /\ engine[j][1] = r /\ engine[j][2] = "playAction settled"
              /\ engine[k][1] = q /\ engine[k][2] = "playAction"

\* the places in `engine` where a request resubmits: a playAction call that
\* follows a word rejection of the same request
Rejections(k) ==
    { j \in 1..(k - 1) : /\ engine[j][1] = engine[k][1]
                         /\ engine[j][2] = "playAction settled"
                         /\ ~engine[j][5].ok
                         /\ NOT_IN_DICTIONARY \in { engine[j][5].exception.message[i] :
                                i \in 1..Len(engine[j][5].exception.message) } }

\* C18: when a PASS is resubmitted, the engine has accepted no action that
\* the same player submitted in the same game after the rejection that started
\* the recovery.
C18_PassFollowsTheRejection ==
    \A k \in 1..Len(engine) :
        (engine[k][2] = "playAction" /\ Rejections(k) # {}) =>
            \A j \in Rejections(k) : \A i \in (j + 1)..(k - 1) :
                ~(/\ engine[i][2] = "playAction settled"
                  /\ engine[i][3] = engine[k][3]
                  /\ engine[i][4] = engine[k][4]
                  /\ engine[i][5].ok
                  /\ \E c \in (j + 1)..(i - 1) :
                        engine[c][1] = engine[i][1] /\ engine[c][2] = "playAction")

====
